---- MODULE Spec2Model ----
(***************************************************************************)
(* Map-matching and motion interpolation engine of the NYC subway tracker  *)
(* (public/js/main.js, public/js/utils.js): the feed poller updateTrains,  *)
(* the batch scheduler chunkProcessor, and the per-fix engine processTrain *)
(* with its anomaly guard, track matcher, path builder and vehicle store.  *)
(*                                                                         *)
(* Conventions of the model                                                *)
(*  - A position is a pair <<x, y>> of integer metres in a local plane     *)
(*    (the code's Cartesian3 / lon-lat pairs); distances are Euclidean.    *)
(*  - A time is an integer number of milliseconds (a JulianDate).          *)
(*  - A SampledPositionProperty is its sample list: a sequence of          *)
(*    <<time, position>> kept sorted by time with unique times, as         *)
(*    Cesium's addSample keeps it.                                         *)
(*  - JavaScript runs each callback to completion: while a chunk of a      *)
(*    batch is being processed (pc = "run") no other callback is enabled.  *)
(***************************************************************************)
EXTENDS Integers, Sequences, FiniteSets, TLC

\* ------------------------------------------------------------ constants

\* main.js:390  if (dist > 2000)
AnomalyThreshold == 2000
\* main.js:449  if (distToNewTarget < 10) return
NoOpThreshold == 10
\* main.js:334  const trainSpeed = 18
TrainSpeed == 18
\* main.js:452  Math.max(20, ...)   (seconds)
MinDuration == 20
\* utils.js:10  batchSize = 15
DefaultBatchSize == 15
\* main.js:400  train.status === 1
STOPPED == 1
\* a status of the feed other than STOPPED (GTFS IN_TRANSIT_TO)
IN_TRANSIT == 2
\* main.js:501  the height handed to Cartesian3.fromDegrees plays no role in the plane

\* ------------------------------------------------------------ bounds

\* calls of updateTrains (the immediate first call and the interval ticks)
MaxTicks == 3
\* advances of the viewer clock
MaxClock == 1
\* the same two bounds, for the engine under short feeds (SpecEngine)
EngineTicks == 2
EngineClock == 1
\* the chunkProcessor harness (SpecChunk): feed lengths 0..MaxN, batch sizes
\* 1..MaxBatch and the default, calls of updateTrains
MaxN == 37
MaxBatch == 3
ChunkTicks == 2
\* calls of updateTrains in the matcher harness (SpecMatch)
MatchTicks == 2
\* calls of updateTrains and clock advances in the path harness (SpecPath)
PathTicks == 2
PathClock == 1
\* calls of updateTrains and clock advances in the abort harness (SpecAbort)
AbortTicks == 3
AbortClock == 1
\* calls of updateTrains in the degraded harness (SpecDegraded)
DegradedTicks == 2
\* calls of updateTrains and clock advances in the store harness (SpecStore)
StoreTicks == 2
StoreClock == 1
\* calls of updateTrains and clock advances in the curve harness (SpecCurve)
CurveTicks == 2
CurveClock == 1
\* calls of updateTrains in the line-toggle harness (SpecLines)
LinesTicks == 2
\* one clock advance, in milliseconds
ClockStep == 10 * 1000

\* ------------------------------------------------------------ arithmetic

Min(a, b) == IF a < b THEN a ELSE b

Max(a, b) == IF a > b THEN a ELSE b

Abs(a) == IF a < 0 THEN 0 - a ELSE a

\* floor of the square root of n, by bisection on [lo, hi]
RECURSIVE SqrtIn(_, _, _)
SqrtIn(n, lo, hi) ==
    IF lo >= hi THEN lo
    ELSE LET mid == (lo + hi + 1) \div 2
         IN  IF mid * mid <= n THEN SqrtIn(n, mid, hi) ELSE SqrtIn(n, lo, mid - 1)

ISqrt(n) == SqrtIn(n, 0, 46340)

\* Cesium.Cartesian3.distance, squared (exact)
Dist2(p, q) == (p[1] - q[1]) * (p[1] - q[1]) + (p[2] - q[2]) * (p[2] - q[2])

\* Cesium.Cartesian3.distance, in whole metres
Distance(p, q) == ISqrt(Dist2(p, q))

\* Cesium.Cartesian3.dot of two displacement vectors
Dot(u, v) == u[1] * v[1] + u[2] * v[2]

\* Cesium.Cartesian3.subtract
Subtract(p, q) == <<p[1] - q[1], p[2] - q[2]>>

\* ------------------------------------------------------------ SampledPositionProperty

\* new Cesium.SampledPositionProperty(): no samples
EmptyProperty == <<>>

\* property.addSample(time, position): the sample goes to its place in time
\* order; a sample already at exactly that time is overwritten
AddSample(samples, t, p) ==
    IF \E i \in DOMAIN samples : samples[i][1] = t
    THEN [i \in DOMAIN samples |-> IF samples[i][1] = t THEN <<t, p>> ELSE samples[i]]
    ELSE LET k == Cardinality({i \in DOMAIN samples : samples[i][1] < t})
         IN  SubSeq(samples, 1, k) \o <<<<t, p>>>> \o SubSeq(samples, k + 1, Len(samples))

\* linear interpolation between two samples at time t (LinearApproximation, degree 1)
Lerp(s0, s1, t) ==
    LET t0 == s0[1]
        t1 == s1[1]
        c(k) == s0[2][k] + ((s1[2][k] - s0[2][k]) * ((t - t0) \div 1000)) \div ((t1 - t0) \div 1000)
    IN  IF t1 - t0 < 1000 THEN s0[2] ELSE <<c(1), c(2)>>

\* property.getValue(time) under setupProperty: before the first sample there is
\* no value (backward extrapolation NONE: <<>>), after the last the last sample is
\* held (forward extrapolation HOLD), in between the position is interpolated.
\* The result is <<>> (undefined) or <<position>>.
GetValue(samples, t) ==
    IF samples = <<>> THEN <<>>
    ELSE IF t < samples[1][1] THEN <<>>
    ELSE IF t >= samples[Len(samples)][1] THEN <<samples[Len(samples)][2]>>
    ELSE LET i == CHOOSE j \in 1..(Len(samples) - 1) :
                      samples[j][1] <= t /\ t < samples[j + 1][1]
         IN  <<Lerp(samples[i], samples[i + 1], t)>>

\* ------------------------------------------------------------ track geometry (turf)

\* the point of the edge a-b nearest to p; the modelled tracks are rectilinear
\* (every edge is parallel to an axis), so the foot of the perpendicular is a clamp
NearestOnEdge(a, b, p) ==
    IF a[2] = b[2]
    THEN <<Max(Min(a[1], b[1]), Min(p[1], Max(a[1], b[1]))), a[2]>>
    ELSE <<a[1], Max(Min(a[2], b[2]), Min(p[2], Max(a[2], b[2])))>>

\* turf.nearestPointOnLine(line, p), scanned edge by edge: for each edge the
\* start vertex, the stop vertex and the perpendicular foot are tried in that
\* order and replace the best so far only when strictly nearer.  The result is
\* [pt, index, d2]: index is the vertex the point follows (the stop vertex of
\* an edge counts as the next index), numbered from 1.
\* a candidate [pt, index, d2] for the point of the line nearest to p
Cand(pt, index, p) == [pt |-> pt, index |-> index, d2 |-> Dist2(pt, p)]

\* the candidate replaces the best so far only when strictly nearer (index 0: no
\* best yet, the distance is Infinity)
Better(cand, best) == IF best.index = 0 \/ cand.d2 < best.d2 THEN cand ELSE best

RECURSIVE NearestScan(_, _, _, _)
NearestScan(line, p, i, best) ==
    IF i >= Len(line) THEN best
    ELSE NearestScan(line, p, i + 1,
             Better(Cand(NearestOnEdge(line[i], line[i + 1], p), i, p),
                 Better(Cand(line[i + 1], i + 1, p),
                     Better(Cand(line[i], i, p), best))))

NearestPointOnLine(line, p) ==
    NearestScan(line, p, 1, [pt |-> line[1], index |-> 0, d2 |-> 0])

\* turf.pointToLineDistance(p, line), squared: the least distance to an edge
PointToLineDistance2(p, line) ==
    LET d(i) == Dist2(NearestOnEdge(line[i], line[i + 1], p), p)
    IN  IF Len(line) = 1 THEN Dist2(line[1], p)
        ELSE CHOOSE m \in {d(i) : i \in 1..(Len(line) - 1)} :
                 \A i \in 1..(Len(line) - 1) : m <= d(i)

\* turf.lineSlice(startPt, stopPt, line): both points are snapped to the line,
\* the two are ordered by vertex index (the start first when the indices are
\* equal), and the slice is the first snapped point, the line's vertices
\* between them and the second snapped point
LineSlice(startPt, stopPt, line) ==
    LET sv == NearestPointOnLine(line, startPt)
        ev == NearestPointOnLine(line, stopPt)
        e0 == IF sv.index <= ev.index THEN sv ELSE ev
        e1 == IF sv.index <= ev.index THEN ev ELSE sv
    IN  <<e0.pt>> \o SubSeq(line, e0.index + 1, e1.index) \o <<e1.pt>>

\* Array.prototype.reverse
Reverse(s) == [i \in 1..Len(s) |-> s[Len(s) + 1 - i]]

\* ------------------------------------------------------------ the engine (processTrain)

\* The vehicle store handed through the engine is a record
\*   [ents, coords, seen]: state.trainEntities, state.lastKnownCoords,
\*   state.lastSeenTimes, each a function whose domain is the set of keys of the
\*   JavaScript object.  An entity is [route, show, position].
\* A fix (train) is [id, route, pos, status, numeric]; numeric is FALSE when lat
\* and lon are null (a stop whose coordinates did not parse), and pos is then unused.

\* Cesium.Cartesian3.fromDegrees(null, null, 5) without argument checks: the
\* point at longitude 0, latitude 0, far from every track
NullIsland == <<30000, 0>>

\* Cesium.Cartesian3.fromDegrees(train.lon, train.lat, 5)
FromDegrees(train) == IF train.numeric THEN train.pos ELSE NullIsland

\* obj[key] = value on a JavaScript object
Put(f, k, v) == [x \in DOMAIN f \cup {k} |-> IF x = k THEN v ELSE f[x]]

\* faulty variant of handleUnwantedBehavior: the threshold test reads dist >= 2000
HandleUnwantedBehaviorAtLeast(st, train, rawPos, currentTime) ==
    IF train.id \notin DOMAIN st.ents \/ train.id \notin DOMAIN st.coords
    THEN [handled |-> FALSE, ents |-> st.ents, coords |-> st.coords, path |-> "none"]
    ELSE IF Dist2(st.coords[train.id], rawPos) >= AnomalyThreshold * AnomalyThreshold
    THEN [handled |-> TRUE,
          ents |-> [st.ents EXCEPT ![train.id].position =
                        AddSample(EmptyProperty, currentTime, rawPos)],
          coords |-> Put(st.coords, train.id, rawPos),
          path |-> "reset"]
    ELSE IF train.status = STOPPED
    THEN [handled |-> TRUE,
          ents |-> [st.ents EXCEPT ![train.id].position =
                        AddSample(st.ents[train.id].position, currentTime, rawPos)],
          coords |-> Put(st.coords, train.id, rawPos),
          path |-> "stopped"]
    ELSE [handled |-> FALSE, ents |-> st.ents, coords |-> st.coords, path |-> "none"]

\* faulty variant of handleUnwantedBehavior: the branch for stopped trains
\* installs a new single-sample property instead of adding to entity.position
HandleUnwantedBehaviorStopReplaces(st, train, rawPos, currentTime) ==
    IF train.id \notin DOMAIN st.ents \/ train.id \notin DOMAIN st.coords
    THEN [handled |-> FALSE, ents |-> st.ents, coords |-> st.coords, path |-> "none"]
    ELSE IF Dist2(st.coords[train.id], rawPos) > AnomalyThreshold * AnomalyThreshold
    THEN [handled |-> TRUE,
          ents |-> [st.ents EXCEPT ![train.id].position =
                        AddSample(EmptyProperty, currentTime, rawPos)],
          coords |-> Put(st.coords, train.id, rawPos),
          path |-> "reset"]
    ELSE IF train.status = STOPPED
    THEN [handled |-> TRUE,
          ents |-> [st.ents EXCEPT ![train.id].position =
                        AddSample(EmptyProperty, currentTime, rawPos)],
          coords |-> Put(st.coords, train.id, rawPos),
          path |-> "stopped"]
    ELSE [handled |-> FALSE, ents |-> st.ents, coords |-> st.coords, path |-> "none"]

\* faulty variant of handleUnwantedBehavior: the branch for stopped trains is missing
HandleUnwantedBehaviorNoStop(st, train, rawPos, currentTime) ==
    IF train.id \notin DOMAIN st.ents \/ train.id \notin DOMAIN st.coords
    THEN [handled |-> FALSE, ents |-> st.ents, coords |-> st.coords, path |-> "none"]
    ELSE IF Dist2(st.coords[train.id], rawPos) > AnomalyThreshold * AnomalyThreshold
    THEN [handled |-> TRUE,
          ents |-> [st.ents EXCEPT ![train.id].position =
                        AddSample(EmptyProperty, currentTime, rawPos)],
          coords |-> Put(st.coords, train.id, rawPos),
          path |-> "reset"]
    ELSE [handled |-> FALSE, ents |-> st.ents, coords |-> st.coords, path |-> "none"]

\* faulty variant of handleUnwantedBehavior: the test for stopped trains comes
\* before the threshold test
HandleUnwantedBehaviorStopFirst(st, train, rawPos, currentTime) ==
    IF train.id \notin DOMAIN st.ents \/ train.id \notin DOMAIN st.coords
    THEN [handled |-> FALSE, ents |-> st.ents, coords |-> st.coords, path |-> "none"]
    ELSE IF train.status = STOPPED
    THEN [handled |-> TRUE,
          ents |-> [st.ents EXCEPT ![train.id].position =
                        AddSample(st.ents[train.id].position, currentTime, rawPos)],
          coords |-> Put(st.coords, train.id, rawPos),
          path |-> "stopped"]
    ELSE IF Dist2(st.coords[train.id], rawPos) > AnomalyThreshold * AnomalyThreshold
    THEN [handled |-> TRUE,
          ents |-> [st.ents EXCEPT ![train.id].position =
                        AddSample(EmptyProperty, currentTime, rawPos)],
          coords |-> Put(st.coords, train.id, rawPos),
          path |-> "reset"]
    ELSE [handled |-> FALSE, ents |-> st.ents, coords |-> st.coords, path |-> "none"]

\* handleUnwantedBehavior: [handled, ents, coords, path]
HandleUnwantedBehavior(st, train, rawPos, currentTime) ==
    IF train.id \notin DOMAIN st.ents \/ train.id \notin DOMAIN st.coords
    THEN [handled |-> FALSE, ents |-> st.ents, coords |-> st.coords, path |-> "none"]
    ELSE IF Dist2(st.coords[train.id], rawPos) > AnomalyThreshold * AnomalyThreshold
    THEN [handled |-> TRUE,
          ents |-> [st.ents EXCEPT ![train.id].position =
                        AddSample(EmptyProperty, currentTime, rawPos)],
          coords |-> Put(st.coords, train.id, rawPos),
          path |-> "reset"]
    ELSE IF train.status = STOPPED
    THEN [handled |-> TRUE,
          ents |-> [st.ents EXCEPT ![train.id].position =
                        AddSample(st.ents[train.id].position, currentTime, rawPos)],
          coords |-> Put(st.coords, train.id, rawPos),
          path |-> "stopped"]
    ELSE [handled |-> FALSE, ents |-> st.ents, coords |-> st.coords, path |-> "none"]

\* faulty variant of the scan: a later segment at the same distance replaces the
\* best so far (dist <= minDist)
RECURSIVE ClosestScanLast(_, _, _, _, _)
ClosestScanLast(flatSegments, p, i, closest, minDist) ==
    IF i > Len(flatSegments) THEN closest
    ELSE LET dist == PointToLineDistance2(p, flatSegments[i])
         IN  IF minDist < 0 \/ dist <= minDist
             THEN ClosestScanLast(flatSegments, p, i + 1, i, dist)
             ELSE ClosestScanLast(flatSegments, p, i + 1, closest, minDist)

\* the scan of findPositionAlongTrack: the index of the closest segment, a later
\* segment replacing the best so far only when strictly nearer
RECURSIVE ClosestScan(_, _, _, _, _)
ClosestScan(flatSegments, p, i, closest, minDist) ==
    IF i > Len(flatSegments) THEN closest
    ELSE LET dist == PointToLineDistance2(p, flatSegments[i])
         IN  IF minDist < 0 \/ dist < minDist
             THEN ClosestScan(flatSegments, p, i + 1, i, dist)
             ELSE ClosestScan(flatSegments, p, i + 1, closest, minDist)

\* faulty variant of findPositionAlongTrack: the raw position is returned unsnapped
FindPositionAlongTrackRaw(routeMap, train, rawPos) ==
    IF train.route \notin DOMAIN routeMap \/ Len(routeMap[train.route]) = 0
    THEN <<>>
    ELSE LET flatSegments == routeMap[train.route]
             closestLine == flatSegments[ClosestScan(flatSegments, rawPos, 1, 1, -1)]
         IN  <<[newPos |-> rawPos, closestLine |-> closestLine]>>

\* faulty variant of findPositionAlongTrack: a route without segments yields the
\* raw position instead of null
FindPositionAlongTrackFallback(routeMap, train, rawPos) ==
    IF train.route \notin DOMAIN routeMap \/ Len(routeMap[train.route]) = 0
    THEN <<[newPos |-> rawPos, closestLine |-> <<rawPos, rawPos>>]>>
    ELSE LET flatSegments == routeMap[train.route]
             closestLine == flatSegments[ClosestScan(flatSegments, rawPos, 1, 1, -1)]
         IN  <<[newPos |-> NearestPointOnLine(closestLine, rawPos).pt,
                closestLine |-> closestLine]>>

\* findPositionAlongTrack: <<>> (null) when the route has no segments, else
\* <<[newPos, closestLine]>>; minDist < 0 stands for Infinity
FindPositionAlongTrack(routeMap, train, rawPos) ==
    IF train.route \notin DOMAIN routeMap \/ Len(routeMap[train.route]) = 0
    THEN <<>>
    ELSE LET flatSegments == routeMap[train.route]
             closestLine == flatSegments[ClosestScan(flatSegments, rawPos, 1, 1, -1)]
         IN  <<[newPos |-> NearestPointOnLine(closestLine, rawPos).pt,
                closestLine |-> closestLine]>>

\* faulty variant of calculatedDuration: the minimum of 20 s is not applied
CalculatedDurationNoMin(distToNewTarget, targetSpeed) ==
    (distToNewTarget * 1000) \div targetSpeed

\* Math.max(20, distToNewTarget / targetSpeed), in milliseconds
CalculatedDuration(distToNewTarget, targetSpeed) ==
    Max(MinDuration * 1000, (distToNewTarget * 1000) \div targetSpeed)

\* faulty variant of the coords.forEach: the offset is index / length instead
\* of index / (length - 1)
RECURSIVE AddWaypointsByLength(_, _, _, _, _)
AddWaypointsByLength(samples, coords, i, currentTime, duration) ==
    IF i > Len(coords) THEN samples
    ELSE AddWaypointsByLength(
             AddSample(samples, currentTime + ((i - 1) * duration) \div Len(coords),
                       coords[i]),
             coords, i + 1, currentTime, duration)

\* the coords.forEach of updateTrainAnimation: waypoint index (from 0) of the
\* slice gets the time currentTime + (index / (length - 1)) * duration
RECURSIVE AddWaypoints(_, _, _, _, _)
AddWaypoints(samples, coords, i, currentTime, duration) ==
    IF i > Len(coords) THEN samples
    ELSE AddWaypoints(
             AddSample(samples, currentTime + ((i - 1) * duration) \div (Len(coords) - 1),
                       coords[i]),
             coords, i + 1, currentTime, duration)

\* the direction correction of updateTrainAnimation
Oriented(coords, currentPos, newPos) ==
    IF Dot(Subtract(newPos, currentPos), Subtract(coords[2], coords[1])) < 0
    THEN Reverse(coords) ELSE coords

\* faulty variant of updateTrainAnimation: the test distToNewTarget < 10 is missing
UpdateTrainAnimationNoSkip(st, id, newPos, closestLine, currentTime, targetSpeed) ==
    LET cur == GetValue(st.ents[id].position, currentTime)
    IN  IF cur = <<>>
        THEN [ents |-> st.ents, coords |-> st.coords, path |-> "aborted"]
        ELSE IF FALSE
        THEN [ents |-> st.ents, coords |-> st.coords, path |-> "noop"]
        ELSE LET currentPos == cur[1]
                 duration == CalculatedDuration(Distance(currentPos, newPos), targetSpeed)
                 seed == AddSample(EmptyProperty, currentTime, currentPos)
                 pathSlice == LineSlice(currentPos, newPos, closestLine)
                 newProperty ==
                     IF Len(pathSlice) > 1
                     THEN AddWaypoints(seed, Oriented(pathSlice, currentPos, newPos), 1,
                                       currentTime, duration)
                     ELSE seed
             IN  [ents |-> [st.ents EXCEPT ![id].position = newProperty],
                  coords |-> Put(st.coords, id, newPos),
                  path |-> "rebuilt"]

\* faulty variant of updateTrainAnimation: the test reads distToNewTarget <= 10
UpdateTrainAnimationAtMost(st, id, newPos, closestLine, currentTime, targetSpeed) ==
    LET cur == GetValue(st.ents[id].position, currentTime)
    IN  IF cur = <<>>
        THEN [ents |-> st.ents, coords |-> st.coords, path |-> "aborted"]
        ELSE IF Dist2(cur[1], newPos) <= NoOpThreshold * NoOpThreshold
        THEN [ents |-> st.ents, coords |-> st.coords, path |-> "noop"]
        ELSE LET currentPos == cur[1]
                 duration == CalculatedDuration(Distance(currentPos, newPos), targetSpeed)
                 seed == AddSample(EmptyProperty, currentTime, currentPos)
                 pathSlice == LineSlice(currentPos, newPos, closestLine)
                 newProperty ==
                     IF Len(pathSlice) > 1
                     THEN AddWaypoints(seed, Oriented(pathSlice, currentPos, newPos), 1,
                                       currentTime, duration)
                     ELSE seed
             IN  [ents |-> [st.ents EXCEPT ![id].position = newProperty],
                  coords |-> Put(st.coords, id, newPos),
                  path |-> "rebuilt"]

\* faulty variant of updateTrainAnimation: the last position is recorded before
\* the test of currentPos
UpdateTrainAnimationAbortStores(st, id, newPos, closestLine, currentTime, targetSpeed) ==
    LET cur == GetValue(st.ents[id].position, currentTime)
    IN  IF cur = <<>>
        THEN [ents |-> st.ents, coords |-> Put(st.coords, id, newPos), path |-> "aborted"]
        ELSE IF Dist2(cur[1], newPos) < NoOpThreshold * NoOpThreshold
        THEN [ents |-> st.ents, coords |-> st.coords, path |-> "noop"]
        ELSE LET currentPos == cur[1]
                 duration == CalculatedDuration(Distance(currentPos, newPos), targetSpeed)
                 seed == AddSample(EmptyProperty, currentTime, currentPos)
                 pathSlice == LineSlice(currentPos, newPos, closestLine)
                 newProperty ==
                     IF Len(pathSlice) > 1
                     THEN AddWaypoints(seed, Oriented(pathSlice, currentPos, newPos), 1,
                                       currentTime, duration)
                     ELSE seed
             IN  [ents |-> [st.ents EXCEPT ![id].position = newProperty],
                  coords |-> Put(st.coords, id, newPos),
                  path |-> "rebuilt"]

\* faulty variant of updateTrainAnimation: state.lastKnownCoords is not updated
UpdateTrainAnimationKeepsCoords(st, id, newPos, closestLine, currentTime, targetSpeed) ==
    LET cur == GetValue(st.ents[id].position, currentTime)
    IN  IF cur = <<>>
        THEN [ents |-> st.ents, coords |-> st.coords, path |-> "aborted"]
        ELSE IF Dist2(cur[1], newPos) < NoOpThreshold * NoOpThreshold
        THEN [ents |-> st.ents, coords |-> st.coords, path |-> "noop"]
        ELSE LET currentPos == cur[1]
                 duration == CalculatedDuration(Distance(currentPos, newPos), targetSpeed)
                 seed == AddSample(EmptyProperty, currentTime, currentPos)
                 pathSlice == LineSlice(currentPos, newPos, closestLine)
                 newProperty ==
                     IF Len(pathSlice) > 1
                     THEN AddWaypoints(seed, Oriented(pathSlice, currentPos, newPos), 1,
                                       currentTime, duration)
                     ELSE seed
             IN  [ents |-> [st.ents EXCEPT ![id].position = newProperty],
                  coords |-> st.coords,
                  path |-> "rebuilt"]

\* updateTrainAnimation: [ents, coords, path]
UpdateTrainAnimation(st, id, newPos, closestLine, currentTime, targetSpeed) ==
    LET cur == GetValue(st.ents[id].position, currentTime)
    IN  IF cur = <<>>
        THEN [ents |-> st.ents, coords |-> st.coords, path |-> "aborted"]
        ELSE IF Dist2(cur[1], newPos) < NoOpThreshold * NoOpThreshold
        THEN [ents |-> st.ents, coords |-> st.coords, path |-> "noop"]
        ELSE LET currentPos == cur[1]
                 duration == CalculatedDuration(Distance(currentPos, newPos), targetSpeed)
                 seed == AddSample(EmptyProperty, currentTime, currentPos)
                 pathSlice == LineSlice(currentPos, newPos, closestLine)
                 newProperty ==
                     IF Len(pathSlice) > 1
                     THEN AddWaypoints(seed, Oriented(pathSlice, currentPos, newPos), 1,
                                       currentTime, duration)
                     ELSE seed
             IN  [ents |-> [st.ents EXCEPT ![id].position = newProperty],
                  coords |-> Put(st.coords, id, newPos),
                  path |-> "rebuilt"]

\* faulty variant of createNewTrain: the new entity and last position replace the
\* maps instead of being added to them
CreateNewTrainAlone(st, train, newPos, currentTime, hidden) ==
    [ents |-> [id \in {train.id} |->
                  [route |-> train.route,
                   show |-> train.route \notin hidden,
                   position |-> AddSample(EmptyProperty, currentTime, newPos)]],
     coords |-> [id \in {train.id} |-> newPos],
     path |-> "created"]

\* faulty variant of createNewTrain: property.addSample is missing
CreateNewTrainNoSample(st, train, newPos, currentTime, hidden) ==
    [ents |-> Put(st.ents, train.id,
                  [route |-> train.route,
                   show |-> train.route \notin hidden,
                   position |-> EmptyProperty]),
     coords |-> Put(st.coords, train.id, newPos),
     path |-> "created"]

\* createNewTrain: [ents, coords, path]
CreateNewTrain(st, train, newPos, currentTime, hidden) ==
    [ents |-> Put(st.ents, train.id,
                  [route |-> train.route,
                   show |-> train.route \notin hidden,
                   position |-> AddSample(EmptyProperty, currentTime, newPos)]),
     coords |-> Put(st.coords, train.id, newPos),
     path |-> "created"]

\* faulty variant of processTrain: state.lastSeenTimes is written only after the
\* returns for a handled and for an unmatched fix
ProcessTrainSeenLate(st, train, currentTime, targetSpeed, wall, checked, routeMap, hidden) ==
    IF ~train.numeric /\ checked
    THEN [ents |-> st.ents, coords |-> st.coords, seen |-> st.seen, path |-> "invalid",
          snap |-> <<>>]
    ELSE LET rawPos == FromDegrees(train)
             seen == Put(st.seen, train.id, wall)
             guard == HandleUnwantedBehavior(st, train, rawPos, currentTime)
             snapResult == FindPositionAlongTrack(routeMap, train, rawPos)
         IN  IF guard.handled
             THEN [ents |-> guard.ents, coords |-> guard.coords, seen |-> st.seen,
                   path |-> guard.path, snap |-> <<>>]
             ELSE IF snapResult = <<>>
             THEN [ents |-> st.ents, coords |-> st.coords, seen |-> st.seen,
                   path |-> "dropped", snap |-> <<>>]
             ELSE IF ~train.numeric
             THEN [ents |-> st.ents, coords |-> st.coords, seen |-> st.seen,
                   path |-> "threw", snap |-> <<>>]
             ELSE LET r == IF train.id \in DOMAIN st.ents
                           THEN UpdateTrainAnimation(st, train.id, snapResult[1].newPos,
                                    snapResult[1].closestLine, currentTime, targetSpeed)
                           ELSE CreateNewTrain(st, train, snapResult[1].newPos,
                                    currentTime, hidden)
                  IN  [ents |-> r.ents, coords |-> r.coords, seen |-> seen,
                       path |-> r.path, snap |-> snapResult]

\* faulty variant of processTrain: the test of entity is missing, so every
\* matched fix goes to createNewTrain
ProcessTrainAlwaysCreates(st, train, currentTime, targetSpeed, wall, checked, routeMap, hidden) ==
    IF ~train.numeric /\ checked
    THEN [ents |-> st.ents, coords |-> st.coords, seen |-> st.seen, path |-> "invalid",
          snap |-> <<>>]
    ELSE LET rawPos == FromDegrees(train)
             seen == Put(st.seen, train.id, wall)
             guard == HandleUnwantedBehavior(st, train, rawPos, currentTime)
             snapResult == FindPositionAlongTrack(routeMap, train, rawPos)
         IN  IF guard.handled
             THEN [ents |-> guard.ents, coords |-> guard.coords, seen |-> seen,
                   path |-> guard.path, snap |-> <<>>]
             ELSE IF snapResult = <<>>
             THEN [ents |-> st.ents, coords |-> st.coords, seen |-> seen,
                   path |-> "dropped", snap |-> <<>>]
             ELSE IF ~train.numeric
             THEN [ents |-> st.ents, coords |-> st.coords, seen |-> seen,
                   path |-> "threw", snap |-> <<>>]
             ELSE LET r == CreateNewTrain(st, train, snapResult[1].newPos,
                                          currentTime, hidden)
                  IN  [ents |-> r.ents, coords |-> r.coords, seen |-> seen,
                       path |-> r.path, snap |-> snapResult]

\* processTrain: [ents, coords, seen, path, snap].  The paths "invalid" and "threw"
\* end in an exception: "invalid" is fromDegrees rejecting null coordinates (a Cesium
\* build with argument checks, checked = TRUE), "threw" is turf.point rejecting them.
\* snap is the snapResult the call went on with (<<>> when it had none).
ProcessTrain(st, train, currentTime, targetSpeed, wall, checked, routeMap, hidden) ==
    IF ~train.numeric /\ checked
    THEN [ents |-> st.ents, coords |-> st.coords, seen |-> st.seen, path |-> "invalid",
          snap |-> <<>>]
    ELSE LET rawPos == FromDegrees(train)
             seen == Put(st.seen, train.id, wall)
             guard == HandleUnwantedBehavior(st, train, rawPos, currentTime)
             snapResult == FindPositionAlongTrack(routeMap, train, rawPos)
         IN  IF guard.handled
             THEN [ents |-> guard.ents, coords |-> guard.coords, seen |-> seen,
                   path |-> guard.path, snap |-> <<>>]
             ELSE IF snapResult = <<>>
             THEN [ents |-> st.ents, coords |-> st.coords, seen |-> seen,
                   path |-> "dropped", snap |-> <<>>]
             ELSE IF ~train.numeric
             THEN [ents |-> st.ents, coords |-> st.coords, seen |-> seen,
                   path |-> "threw", snap |-> <<>>]
             ELSE LET r == IF train.id \in DOMAIN st.ents
                           THEN UpdateTrainAnimation(st, train.id, snapResult[1].newPos,
                                    snapResult[1].closestLine, currentTime, targetSpeed)
                           ELSE CreateNewTrain(st, train, snapResult[1].newPos,
                                    currentTime, hidden)
                  IN  [ents |-> r.ents, coords |-> r.coords, seen |-> seen,
                       path |-> r.path, snap |-> snapResult]

\* ------------------------------------------------------------ inputs

\* the flattened track of route A: two independent rectilinear polylines, the
\* second parallel to the first 20 m to the north
TrackA == << << <<0, 0>>, <<1500, 0>>, <<3000, 0>> >>,
             << <<0, 20>>, <<3000, 20>> >> >>

\* the outcomes of loadSubwayLines: [data, map] with data = FALSE when the fetch
\* of the geometry failed (state.subwayLinesData stays null)
Loads ==
    { [data |-> TRUE, map |-> [r \in {"A"} |-> TrackA]],
      [data |-> TRUE, map |-> [r \in {} |-> <<>>]],
      [data |-> FALSE, map |-> [r \in {} |-> <<>>]] }

\* raw positions reported by the feed
RawPts == { <<0, 0>>, <<5, 8>>, <<2000, 0>>, <<2500, 8>> }

\* a fix with numeric coordinates
Fix(id, route, pos, status) ==
    [id |-> id, route |-> route, pos |-> pos, status |-> status, numeric |-> TRUE]

\* a fix whose lat and lon are null
NullFix(id, route, status) ==
    [id |-> id, route |-> route, pos |-> <<0, 0>>, status |-> status, numeric |-> FALSE]

\* the fixes of a short feed: vehicle v1 at every raw position on the route with
\* track (A), stopped or moving; v1 on a route without track (X); and a
\* fix of v1 whose coordinates are null
Trains ==
    { Fix("v1", "A", p, s) : p \in RawPts, s \in {STOPPED, IN_TRANSIT} }
    \cup { Fix("v1", "X", <<0, 0>>, STOPPED), Fix("v1", "X", <<0, 0>>, IN_TRANSIT),
           NullFix("v1", "A", IN_TRANSIT) }

\* the fixes of a feed of any length: v1 moving, v1 stopped, v1 with null coordinates
BulkTrains ==
    { Fix("v1", "A", <<0, 0>>, IN_TRANSIT), Fix("v1", "A", <<1500, 8>>, STOPPED),
      NullFix("v1", "A", IN_TRANSIT) }

\* the fixes of a feed in the chunkProcessor harness: fixes as the feed interface
\* promises them (numeric coordinates), which processTrain handles without throwing
ChunkTrains == { Fix("v1", "A", <<0, 0>>, IN_TRANSIT), Fix("v1", "A", <<1500, 8>>, STOPPED) }

\* the flattened track of route B: the polylines of route A in the other order
TrackB == << TrackA[2], TrackA[1] >>

\* the fixes of a feed in the matcher harness: v1 on route A or B, midway between
\* the two polylines (10 m from each), nearer the southern one, nearer the northern one
MatchTrains ==
    { Fix("v1", r, p, IN_TRANSIT) : r \in {"A", "B"},
                                     p \in { <<1000, 10>>, <<1000, 4>>, <<1000, 16>> } }

\* the fixes of a feed in the path harness: v1 moving on route A, reported on
\* the track or 8 m off it, at 0, 5, 10, 500, 2000 and 2500 m along it
PathTrains ==
    { Fix("v1", "A", p, IN_TRANSIT) :
          p \in { <<0, 0>>, <<5, 8>>, <<10, 0>>, <<500, 8>>, <<2000, 0>>, <<2500, 8>> } }

\* the fixes of a feed in the abort harness: v1 on route A, on the track at 0 m
\* and 8 m off it at 500 m
AbortTrains ==
    { Fix("v1", "A", p, IN_TRANSIT) : p \in { <<0, 0>>, <<500, 8>> } }

\* the outcomes of a loadSubwayLines that failed, for a data set with the routes
\* A and B: the fetch or response.json() rejected (state.subwayLinesData stays
\* null), or the forEach over the features threw before the first feature was
\* stored, or after the features of route A and before those of route B
DegradedLoads ==
    { [data |-> FALSE, map |-> [r \in {} |-> <<>>]],
      [data |-> TRUE, map |-> [r \in {} |-> <<>>]],
      [data |-> TRUE, map |-> [r \in {"A"} |-> TrackA]] }

\* the fixes of a feed in the degraded harness: v1 on route A, v2 on route B,
\* and a fix of v1 whose coordinates are null
DegradedTrains ==
    { Fix("v1", "A", <<0, 0>>, IN_TRANSIT), Fix("v2", "B", <<0, 0>>, IN_TRANSIT),
      NullFix("v1", "A", IN_TRANSIT) }

\* the fixes of a feed in the store harness: v1 on route A at 0 m, at 500 m, and
\* stopped at 2500 m; v2 on route B, on a route without track (X), and with null
\* coordinates
StoreTrains ==
    { Fix("v1", "A", <<0, 0>>, IN_TRANSIT), Fix("v1", "A", <<500, 8>>, IN_TRANSIT),
      Fix("v1", "A", <<2500, 8>>, STOPPED),
      Fix("v2", "B", <<1000, 4>>, IN_TRANSIT), Fix("v2", "X", <<0, 0>>, IN_TRANSIT),
      NullFix("v2", "B", IN_TRANSIT) }

\* the flattened track of route C: one polyline that runs 1000 m east, turns
\* north for 100 m and runs back west for 1500 m (a hairpin)
TrackC == << << <<1000, 0>>, <<2000, 0>>, <<2000, 100>>, <<500, 100>> >> >>

\* the fixes of a feed in the curve harness: v1 on route C at the first vertex
\* of the hairpin, on its second leg and at its last vertex
CurveTrains ==
    { Fix("v1", "C", p, IN_TRANSIT) : p \in { <<1000, 0>>, <<2000, 50>>, <<500, 100>> } }

\* the groups of createSubwayLineToggles that hold the modelled routes: A with
\* C, and B (every line of a group has a button, with or without geometry)
Groups == { <<"A", "C">>, <<"B">> }

\* the lines that have a toggle button
Lines == UNION { {g[i] : i \in 1 .. Len(g)} : g \in Groups }

\* the fixes of a feed in the line-toggle harness: v1 on route A, v2 on route B
LinesTrains ==
    { Fix("v1", "A", <<0, 0>>, IN_TRANSIT), Fix("v2", "B", <<1000, 4>>, IN_TRANSIT) }

\* the lengths of the short feeds: one fix, or two (which may be of one vehicle)
ShortLens == {1, 2}

\* the lengths of the polled batches: empty, one fix, two chunks
FeedLens == {0, 1, DefaultBatchSize + 1}

\* the batch sizes handed to chunkProcessor in the harness
BatchSizes == (1..MaxBatch) \cup {DefaultBatchSize}

\* ------------------------------------------------------------ state

VARIABLES
    subwayLinesData,    \* appState.subwayLinesData is loaded (not null)
    flattenedRouteMap,  \* appState.flattenedRouteMap
    isUpdating,         \* appState.isUpdating
    hiddenLines,        \* appState.hiddenLines
    trainEntities,      \* appState.trainEntities
    lastKnownCoords,    \* appState.lastKnownCoords
    lastSeenTimes,      \* appState.lastSeenTimes
    clock,              \* viewer.clock.currentTime and Date.now()
    ticks,              \* calls of updateTrains made so far (initApp and setInterval)
    cycles,             \* the closures of the accepted calls of updateTrains
    last                \* the latest call of processTrain: its cycle, index, fix, path, snapResult

vars == <<subwayLinesData, flattenedRouteMap, isUpdating, hiddenLines, trainEntities,
          lastKnownCoords, lastSeenTimes, clock, ticks, cycles, last>>

store == <<trainEntities, lastKnownCoords, lastSeenTimes>>

\* A cycle is the closure of one accepted updateTrains call and of its
\* chunkProcessor, keyed by the number of the call.  pc is "fetch" (awaiting the
\* feed), "run" (inside run(), between two fixes of a chunk), "raf" (run scheduled
\* by requestAnimationFrame), "done" (onComplete called), "failed" (the catch of
\* updateTrains ran) or "dead" (an exception left a frame callback).  now is
\* currentTime, n is items.length, index and end are run's, sync tells the first
\* (synchronous) run from a frame callback.  calls, chunks, completions and rafs
\* record what the scheduler did: the indices handed to processFn, the fixes
\* processed per run, the calls of onComplete and of requestAnimationFrame.
NewCycle(now, batchSize) ==
    [pc |-> "fetch", now |-> now, n |-> 0, batchSize |-> batchSize, index |-> 0,
     end |-> 0, sync |-> TRUE, calls |-> <<>>, chunks |-> <<>>, completions |-> 0,
     rafs |-> 0]

NoTrain == [id |-> "", route |-> "", pos |-> <<0, 0>>, status |-> 0, numeric |-> TRUE]

NoCall == [cycle |-> 0, index |-> 0, train |-> NoTrain, path |-> "none", snap |-> <<>>]

\* the cycles with a callback still to come
InFlight == {c \in DOMAIN cycles : cycles[c].pc \in {"fetch", "run", "raf"}}

\* a run() is on the JavaScript stack
Busy == \E c \in DOMAIN cycles : cycles[c].pc = "run"

Init ==
    /\ \E l \in Loads : subwayLinesData = l.data /\ flattenedRouteMap = l.map
    /\ isUpdating = FALSE
    /\ hiddenLines = {}
    /\ trainEntities = [i \in {} |-> 0]
    /\ lastKnownCoords = [i \in {} |-> 0]
    /\ lastSeenTimes = [i \in {} |-> 0]
    /\ clock = 0
    /\ ticks = 0
    /\ cycles = [c \in {} |-> 0]
    /\ last = NoCall

\* ------------------------------------------------------------ line toggles

\* The state handed through the toggles is [hidden, ents]: appState.hiddenLines
\* and appState.trainEntities.  forceState is <<>> for null and <<b>> for the
\* boolean b.

\* faulty variant of toggleLineVisibility: the test entity.route === lineKey is
\* missing, so every entity is shown or hidden
ToggleLineVisibilityAll(st, lineKey, forceState) ==
    LET isHidden == lineKey \in st.hidden
        shouldHide == IF forceState # <<>> THEN ~forceState[1] ELSE ~isHidden
    IN  [hidden |-> IF shouldHide THEN st.hidden \cup {lineKey} ELSE st.hidden \ {lineKey},
         ents |-> [id \in DOMAIN st.ents |-> [st.ents[id] EXCEPT !.show = ~shouldHide]]]

\* toggleLineVisibility(lineKey, forceState), without the polylines
ToggleLineVisibility(st, lineKey, forceState) ==
    LET isHidden == lineKey \in st.hidden
        shouldHide == IF forceState # <<>> THEN ~forceState[1] ELSE ~isHidden
    IN  [hidden |-> IF shouldHide THEN st.hidden \cup {lineKey} ELSE st.hidden \ {lineKey},
         ents |-> [id \in DOMAIN st.ents |->
                      IF st.ents[id].route = lineKey
                      THEN [st.ents[id] EXCEPT !.show = ~shouldHide]
                      ELSE st.ents[id]]]

\* the lines.forEach of toggleGroupVisibility, from line i on: every line of the
\* group is forced to targetOn
RECURSIVE ToggleGroupVisibility(_, _, _, _)
ToggleGroupVisibility(st, lines, i, targetOn) ==
    IF i > Len(lines) THEN st
    ELSE ToggleGroupVisibility(ToggleLineVisibility(st, lines[i], <<targetOn>>),
                               lines, i + 1, targetOn)

\* ------------------------------------------------------------ the batch scheduler

\* faulty variant of AfterLoop: the test reads index <= items.length, so the
\* run that reaches the end schedules another frame instead of completing
AfterLoopYield(cy) ==
    IF cy.index <= cy.n
    THEN [cy EXCEPT !.pc = "raf", !.rafs = @ + 1]
    ELSE [cy EXCEPT !.pc = "done", !.completions = @ + 1]

\* faulty variant of AfterLoop: onComplete is called at the end of every run
AfterLoopAlways(cy) ==
    [cy EXCEPT !.pc = IF cy.index < cy.n THEN "raf" ELSE "done",
               !.rafs = IF cy.index < cy.n THEN @ + 1 ELSE @,
               !.completions = @ + 1]

\* run(), after its loop: schedule the next run or call onComplete
AfterLoop(cy) ==
    IF cy.index < cy.n
    THEN [cy EXCEPT !.pc = "raf", !.rafs = @ + 1]
    ELSE [cy EXCEPT !.pc = "done", !.completions = @ + 1]

\* faulty variant of RunStart: end is not clamped to items.length
RunStartNoClamp(cy) ==
    LET c1 == [cy EXCEPT !.end = cy.index + cy.batchSize,
                         !.chunks = Append(@, 0)]
    IN  IF c1.index < c1.end THEN [c1 EXCEPT !.pc = "run"] ELSE AfterLoop(c1)

\* run(), up to its loop: const end = Math.min(index + batchSize, items.length)
RunStart(cy) ==
    LET c1 == [cy EXCEPT !.end = Min(cy.index + cy.batchSize, cy.n),
                         !.chunks = Append(@, 0)]
    IN  IF c1.index < c1.end THEN [c1 EXCEPT !.pc = "run"] ELSE AfterLoop(c1)

\* faulty variant of LoopStep: the loop forgets index++
LoopStepNoAdvance(cy) ==
    LET c1 == [cy EXCEPT !.calls = Append(@, cy.index),
                         !.chunks[Len(cy.chunks)] = @ + 1]
    IN  IF Len(c1.calls) < c1.end THEN c1 ELSE AfterLoop(c1)

\* run(), one pass of its loop whose processFn returned: index++, and the end
\* of run() when that was the last fix of the chunk
LoopStep(cy) ==
    LET c1 == [cy EXCEPT !.index = @ + 1,
                         !.calls = Append(@, cy.index),
                         !.chunks[Len(cy.chunks)] = @ + 1]
    IN  IF c1.index < c1.end THEN c1 ELSE AfterLoop(c1)

\* run(), one pass of its loop whose processFn threw: the first run is inside
\* the try of updateTrains, a frame callback is not
LoopThrow(cy) ==
    [cy EXCEPT !.calls = Append(@, cy.index),
               !.pc = IF cy.sync THEN "failed" ELSE "dead"]

\* faulty variant of FlagAfter: the catch of updateTrains leaves the flag set
FlagAfterNoCatch(next, flag) ==
    IF next.pc = "done" THEN FALSE ELSE flag

\* state.isUpdating after a step that left the cycle as next: onComplete and
\* the catch of updateTrains clear it
FlagAfter(next, flag) ==
    IF next.pc \in {"done", "failed"} THEN FALSE ELSE flag

\* ------------------------------------------------------------ actions

\* faulty variant of Accepts: the guard does not read state.isUpdating
AcceptsNoFlag == subwayLinesData

\* the guard of updateTrains (flattenedRouteMap is an object, never falsy)
Accepts == subwayLinesData /\ ~isUpdating

\* the closures still reachable when a new cycle starts: a finished cycle has
\* no callback left that refers to it
Live == [c \in InFlight |-> cycles[c]]

\* faulty variant of UpdateTrains: a call that is turned away clears the flag
UpdateTrainsUnlock(maxTicks) ==
    /\ ~Busy
    /\ ticks < maxTicks
    /\ ticks' = ticks + 1
    /\ IF Accepts
       THEN /\ isUpdating' = TRUE
            /\ cycles' = Put(Live, ticks + 1, NewCycle(clock, DefaultBatchSize))
       ELSE /\ isUpdating' = FALSE
            /\ UNCHANGED cycles
    /\ UNCHANGED <<subwayLinesData, flattenedRouteMap, hiddenLines, store, clock, last>>

\* updateTrains up to its await: called by initApp and by every interval tick
UpdateTrains(maxTicks) ==
    /\ ~Busy
    /\ ticks < maxTicks
    /\ ticks' = ticks + 1
    /\ IF Accepts
       THEN /\ isUpdating' = TRUE
            /\ cycles' = Put(Live, ticks + 1, NewCycle(clock, DefaultBatchSize))
       ELSE UNCHANGED <<isUpdating, cycles>>
    /\ UNCHANGED <<subwayLinesData, flattenedRouteMap, hiddenLines, store, clock, last>>

\* the fetch or response.json() of cycle c rejects: the catch of updateTrains
FetchFail(c) ==
    /\ ~Busy
    /\ cycles[c].pc = "fetch"
    /\ cycles' = [cycles EXCEPT ![c].pc = "failed"]
    /\ isUpdating' = FlagAfter(cycles'[c], isUpdating)
    /\ UNCHANGED <<subwayLinesData, flattenedRouteMap, hiddenLines, store, clock, ticks,
                   last>>

\* the feed of cycle c arrives with n fixes: chunkProcessor and its first run()
FetchResolve(c, n) ==
    /\ ~Busy
    /\ cycles[c].pc = "fetch"
    /\ cycles' = [cycles EXCEPT ![c] = RunStart([cycles[c] EXCEPT !.n = n, !.index = 0])]
    /\ isUpdating' = FlagAfter(cycles'[c], isUpdating)
    /\ UNCHANGED <<subwayLinesData, flattenedRouteMap, hiddenLines, store, clock, ticks,
                   last>>

\* one pass of the loop of run() in cycle c: processFn(items[index]), which is
\* processTrain(state, train, currentTime, trainSpeed).  The fix at items[index]
\* is read here for the first time, so it is drawn here.
ProcessStep(c, train, checked) ==
    /\ cycles[c].pc = "run"
    /\ LET cy == cycles[c]
           r == ProcessTrain([ents |-> trainEntities, coords |-> lastKnownCoords,
                              seen |-> lastSeenTimes],
                             train, cy.now, TrainSpeed, clock, checked,
                             flattenedRouteMap, hiddenLines)
           next == IF r.path \in {"invalid", "threw"} THEN LoopThrow(cy) ELSE LoopStep(cy)
       IN  /\ trainEntities' = r.ents
           /\ lastKnownCoords' = r.coords
           /\ lastSeenTimes' = r.seen
           /\ cycles' = [cycles EXCEPT ![c] = next]
           /\ isUpdating' = FlagAfter(next, isUpdating)
           /\ last' = [cycle |-> c, index |-> cy.index, train |-> train, path |-> r.path,
                        snap |-> r.snap]
    /\ UNCHANGED <<subwayLinesData, flattenedRouteMap, hiddenLines, clock, ticks>>

\* the frame callback of cycle c: the run() scheduled by requestAnimationFrame
Frame(c) ==
    /\ ~Busy
    /\ cycles[c].pc = "raf"
    /\ cycles' = [cycles EXCEPT ![c] = RunStart([cycles[c] EXCEPT !.sync = FALSE])]
    /\ isUpdating' = FlagAfter(cycles'[c], isUpdating)
    /\ UNCHANGED <<subwayLinesData, flattenedRouteMap, hiddenLines, store, clock, ticks,
                   last>>

\* the viewer clock (and the wall clock) advance between callbacks
ClockTick(maxClock) ==
    /\ ~Busy
    /\ clock < maxClock * ClockStep
    /\ clock' = clock + ClockStep
    /\ UNCHANGED <<subwayLinesData, flattenedRouteMap, isUpdating, hiddenLines, store,
                   ticks, cycles, last>>

\* whether Cesium checks the arguments of fromDegrees depends on the build the
\* page loads; it shows only on a fix with null coordinates
Builds(train) == IF train.numeric THEN {FALSE} ELSE BOOLEAN

\* the poller, the scheduler and the engine, under feeds of BulkTrains
Next ==
    \/ UpdateTrains(MaxTicks)
    \/ ClockTick(MaxClock)
    \/ \E c \in DOMAIN cycles : FetchFail(c)
    \/ \E c \in DOMAIN cycles : \E n \in FeedLens : FetchResolve(c, n)
    \/ \E c \in DOMAIN cycles : \E train \in BulkTrains : \E checked \in Builds(train) :
           ProcessStep(c, train, checked)
    \/ \E c \in DOMAIN cycles : Frame(c)

Spec == Init /\ [][Next]_vars

\* the engine under short feeds (one chunk each) of Trains
NextEngine ==
    \/ UpdateTrains(EngineTicks)
    \/ ClockTick(EngineClock)
    \/ \E c \in DOMAIN cycles : \E n \in ShortLens : FetchResolve(c, n)
    \/ \E c \in DOMAIN cycles : \E train \in Trains : \E checked \in Builds(train) :
           ProcessStep(c, train, checked)

SpecEngine == Init /\ [][NextEngine]_vars

\* chunkProcessor called with any batch size on a feed of any length: the first
\* call of updateTrains has been accepted and awaits the feed
InitChunk ==
    /\ subwayLinesData = TRUE
    /\ flattenedRouteMap = [r \in {"A"} |-> TrackA]
    /\ isUpdating = TRUE
    /\ hiddenLines = {}
    /\ trainEntities = [i \in {} |-> 0]
    /\ lastKnownCoords = [i \in {} |-> 0]
    /\ lastSeenTimes = [i \in {} |-> 0]
    /\ clock = 0
    /\ ticks = 1
    /\ \E b \in BatchSizes : cycles = [c \in {1} |-> NewCycle(0, b)]
    /\ last = NoCall

NextChunk ==
    \/ UpdateTrains(ChunkTicks)
    \/ \E c \in DOMAIN cycles : FetchFail(c)
    \/ \E c \in DOMAIN cycles : \E n \in 0..MaxN : FetchResolve(c, n)
    \/ \E c \in DOMAIN cycles : \E train \in ChunkTrains : \E checked \in Builds(train) :
           ProcessStep(c, train, checked)
    \/ \E c \in DOMAIN cycles : Frame(c)

SpecChunk == InitChunk /\ [][NextChunk]_vars

\* The matcher harness: the geometry of routes A and B is loaded, short feeds of
\* MatchTrains are polled.
InitMatch ==
    /\ subwayLinesData = TRUE
    /\ flattenedRouteMap = [r \in {"A", "B"} |-> IF r = "A" THEN TrackA ELSE TrackB]
    /\ isUpdating = FALSE
    /\ hiddenLines = {}
    /\ trainEntities = [i \in {} |-> 0]
    /\ lastKnownCoords = [i \in {} |-> 0]
    /\ lastSeenTimes = [i \in {} |-> 0]
    /\ clock = 0
    /\ ticks = 0
    /\ cycles = [c \in {} |-> 0]
    /\ last = NoCall

NextMatch ==
    \/ UpdateTrains(MatchTicks)
    \/ \E c \in DOMAIN cycles : \E n \in ShortLens : FetchResolve(c, n)
    \/ \E c \in DOMAIN cycles : \E train \in MatchTrains : \E checked \in Builds(train) :
           ProcessStep(c, train, checked)

SpecMatch == InitMatch /\ [][NextMatch]_vars

\* The path harness: the geometry is loaded, short feeds of PathTrains are polled
\* while the clock advances.
NextPath ==
    \/ UpdateTrains(PathTicks)
    \/ ClockTick(PathClock)
    \/ \E c \in DOMAIN cycles : \E n \in ShortLens : FetchResolve(c, n)
    \/ \E c \in DOMAIN cycles : \E train \in PathTrains : \E checked \in Builds(train) :
           ProcessStep(c, train, checked)

SpecPath == InitMatch /\ [][NextPath]_vars

\* viewer.clock.currentTime belongs to the viewer, not to the engine: updateTrains
\* reads whatever it holds.  Here it is set back to its first value between
\* callbacks (the model's one clock is also Date.now(), which follows it).
ClockSet ==
    /\ ~Busy
    /\ clock > 0
    /\ clock' = 0
    /\ UNCHANGED <<subwayLinesData, flattenedRouteMap, isUpdating, hiddenLines, store,
                   ticks, cycles, last>>

\* the onclick of the button of a line: toggleLineVisibility(line)
LineToggle(line) ==
    /\ ~Busy
    /\ LET r == ToggleLineVisibility([hidden |-> hiddenLines, ents |-> trainEntities],
                                     line, <<>>)
       IN  hiddenLines' = r.hidden /\ trainEntities' = r.ents
    /\ UNCHANGED <<subwayLinesData, flattenedRouteMap, isUpdating, lastKnownCoords,
                   lastSeenTimes, clock, ticks, cycles, last>>

\* the onclick of the button of a group: toggleGroupVisibility(lines, masterBtn),
\* targetOn being whether masterBtn has the class is-off
GroupToggle(lines, targetOn) ==
    /\ ~Busy
    /\ LET r == ToggleGroupVisibility([hidden |-> hiddenLines, ents |-> trainEntities],
                                      lines, 1, targetOn)
       IN  hiddenLines' = r.hidden /\ trainEntities' = r.ents
    /\ UNCHANGED <<subwayLinesData, flattenedRouteMap, isUpdating, lastKnownCoords,
                   lastSeenTimes, clock, ticks, cycles, last>>

\* The line-toggle harness: the geometry of routes A and B is loaded and the
\* buttons exist; short feeds of LinesTrains are polled while lines and groups
\* are toggled between callbacks.
NextLines ==
    \/ UpdateTrains(LinesTicks)
    \/ \E c \in DOMAIN cycles : \E n \in ShortLens : FetchResolve(c, n)
    \/ \E c \in DOMAIN cycles : \E train \in LinesTrains : \E checked \in Builds(train) :
           ProcessStep(c, train, checked)
    \/ \E line \in Lines : LineToggle(line)
    \/ \E lines \in Groups : \E targetOn \in BOOLEAN : GroupToggle(lines, targetOn)

SpecLines == InitMatch /\ [][NextLines]_vars

\* The abort harness: the geometry is loaded, feeds of one fix of AbortTrains are
\* polled while the viewer clock advances or is set back, so that a cycle can
\* read a time before the first sample of a motion property.
NextAbort ==
    \/ UpdateTrains(AbortTicks)
    \/ ClockTick(AbortClock)
    \/ ClockSet
    \/ \E c \in DOMAIN cycles : FetchResolve(c, 1)
    \/ \E c \in DOMAIN cycles : \E train \in AbortTrains : \E checked \in Builds(train) :
           ProcessStep(c, train, checked)

SpecAbort == InitMatch /\ [][NextAbort]_vars

\* The degraded harness: loadSubwayLines failed, and feeds of DegradedTrains of
\* one fix or of two chunks are polled.
InitDegraded ==
    /\ \E l \in DegradedLoads : subwayLinesData = l.data /\ flattenedRouteMap = l.map
    /\ isUpdating = FALSE
    /\ hiddenLines = {}
    /\ trainEntities = [i \in {} |-> 0]
    /\ lastKnownCoords = [i \in {} |-> 0]
    /\ lastSeenTimes = [i \in {} |-> 0]
    /\ clock = 0
    /\ ticks = 0
    /\ cycles = [c \in {} |-> 0]
    /\ last = NoCall

NextDegraded ==
    \/ UpdateTrains(DegradedTicks)
    \/ \E c \in DOMAIN cycles : FetchFail(c)
    \/ \E c \in DOMAIN cycles : \E n \in {1, DefaultBatchSize + 1} : FetchResolve(c, n)
    \/ \E c \in DOMAIN cycles : \E train \in DegradedTrains : \E checked \in Builds(train) :
           ProcessStep(c, train, checked)
    \/ \E c \in DOMAIN cycles : Frame(c)

SpecDegraded == InitDegraded /\ [][NextDegraded]_vars

\* The store harness: the geometry of routes A and B is loaded, short feeds of
\* StoreTrains (two vehicles; a feed may hold one of them only, or one twice)
\* are polled while the clock advances.
NextStore ==
    \/ UpdateTrains(StoreTicks)
    \/ ClockTick(StoreClock)
    \/ \E c \in DOMAIN cycles : \E n \in ShortLens : FetchResolve(c, n)
    \/ \E c \in DOMAIN cycles : \E train \in StoreTrains : \E checked \in Builds(train) :
           ProcessStep(c, train, checked)

SpecStore == InitMatch /\ [][NextStore]_vars

\* The curve harness: the geometry of route C, a hairpin, is loaded, and short
\* feeds of CurveTrains are polled while the clock advances.
InitCurve ==
    /\ subwayLinesData = TRUE
    /\ flattenedRouteMap = [r \in {"C"} |-> TrackC]
    /\ isUpdating = FALSE
    /\ hiddenLines = {}
    /\ trainEntities = [i \in {} |-> 0]
    /\ lastKnownCoords = [i \in {} |-> 0]
    /\ lastSeenTimes = [i \in {} |-> 0]
    /\ clock = 0
    /\ ticks = 0
    /\ cycles = [c \in {} |-> 0]
    /\ last = NoCall

NextCurve ==
    \/ UpdateTrains(CurveTicks)
    \/ ClockTick(CurveClock)
    \/ \E c \in DOMAIN cycles : \E n \in ShortLens : FetchResolve(c, n)
    \/ \E c \in DOMAIN cycles : \E train \in CurveTrains : \E checked \in Builds(train) :
           ProcessStep(c, train, checked)

SpecCurve == InitCurve /\ [][NextCurve]_vars

\* ------------------------------------------------------------ claims: poller and scheduler

\* cycle c was handed to chunkProcessor (its first run() has begun)
Handed(c) == cycles[c].chunks # <<>>

\* the step is the catch of updateTrains running for a failed fetch of cycle c
FetchFailed(c) ==
    /\ c \in DOMAIN cycles /\ c \in DOMAIN cycles'
    /\ cycles[c].pc = "fetch" /\ cycles'[c].pc = "failed"

\* the step is the arrival of the feed of cycle c
FetchResolved(c) ==
    /\ c \in DOMAIN cycles /\ c \in DOMAIN cycles'
    /\ cycles[c].pc = "fetch" /\ cycles'[c].pc \notin {"fetch", "failed"}

\* the step is a call of updateTrains
Ticked == ticks' # ticks

\* C1: at most one update cycle is in flight at any time (and the flag is set
\* while one is), and a fix is processed only while its own cycle is the one
\* in flight, so the fixes of two polled batches never interleave.
C1_SingleFlight ==
    /\ [](Cardinality(InFlight) <= 1 /\ (InFlight # {} => isUpdating))
    /\ [][\A c \in DOMAIN cycles :
             (c \in DOMAIN cycles' /\ cycles'[c].calls # cycles[c].calls)
                 => InFlight = {c}]_vars

\* C1 witness: a batch waits between two chunks while a later tick has come
C1_Witness ==
    \E c \in DOMAIN cycles :
        cycles[c].pc = "raf" /\ cycles[c].index = DefaultBatchSize /\ ticks > c

\* C2: a call of updateTrains made while the flag is set changes nothing (no
\* fetch begins, the flag and every cycle stay as they are), and a cycle begins
\* only in a call of updateTrains made while the flag is clear: nothing is queued.
C2_TickDropped ==
    /\ [][(Ticked /\ isUpdating)
             => UNCHANGED <<subwayLinesData, flattenedRouteMap, isUpdating, hiddenLines,
                            store, clock, cycles, last>>]_vars
    /\ [][(DOMAIN cycles' \ DOMAIN cycles # {})
             => (Ticked /\ ~isUpdating /\ DOMAIN cycles' \ DOMAIN cycles = {ticks'})]_vars

\* C2 witness: the second call was dropped and the cycle it met has since finished
C2_Witness ==
    /\ ticks = 2
    /\ DOMAIN cycles = {1}
    /\ cycles[1].pc = "done"
    /\ ~isUpdating

\* C5 as claimed: whenever the flag is set, a callback that will clear it is
\* still to come (a pending fetch, a running chunk or a scheduled frame callback).
C5_FlagCleared == isUpdating => InFlight # {}

\* C6: when the fetch of a cycle fails the flag is cleared and nothing else
\* changes: the vehicle store, the hidden lines and the clock are as before, no
\* run was started or scheduled for the cycle, every other cycle is as before;
\* and the poller then accepts the next call.
C6_FetchFailure ==
    [][\A c \in DOMAIN cycles :
          FetchFailed(c)
              => /\ ~isUpdating'
                 /\ UNCHANGED <<subwayLinesData, flattenedRouteMap, hiddenLines, store,
                                clock, ticks, last>>
                 /\ cycles' = [cycles EXCEPT ![c].pc = "failed"]
                 /\ cycles'[c].chunks = <<>> /\ cycles'[c].rafs = 0
                 /\ Accepts']_vars

\* C6 witness: a fetch failed after an earlier cycle had created a vehicle
C6_Witness ==
    /\ \E c \in DOMAIN cycles : cycles[c].pc = "failed" /\ ~Handed(c)
    /\ DOMAIN trainEntities # {}
    /\ ~isUpdating

\* C8: an empty feed completes inside the call that receives it: onComplete is
\* called once, no frame callback is scheduled, processFn is not called, the
\* flag is clear when the call returns and the vehicle store is untouched.
C8_EmptyInput ==
    [][\A c \in DOMAIN cycles :
          (FetchResolved(c) /\ cycles'[c].n = 0)
              => /\ cycles'[c].pc = "done"
                 /\ cycles'[c].completions = 1
                 /\ cycles'[c].rafs = 0
                 /\ cycles'[c].calls = <<>>
                 /\ ~isUpdating'
                 /\ UNCHANGED <<store, last>>]_vars

\* C8 witness: a cycle whose feed was empty has completed
C8_Witness ==
    \E c \in DOMAIN cycles :
        Handed(c) /\ cycles[c].n = 0 /\ cycles[c].pc = "done" /\ ~isUpdating

\* ------------------------------------------------------------ claims: chunkProcessor

\* ceil(n / b)
Ceil(n, b) == (n + b - 1) \div b

\* the batch of cycle c is over: it was handed over and no run is under way or scheduled
Over(c) == Handed(c) /\ cycles[c].pc \notin {"run", "raf"}

\* C3: processFn is called once for every fix and in input order: the calls made
\* so far are always the fixes 0 .. index-1 in that order, never past the end of
\* the feed, and when the batch is over they are all n of them, for every feed
\* length and batch size; a call of updateTrains meanwhile leaves the batch as
\* it is, and a batch under way is never withdrawn or set back.
C3_ExactlyOnce ==
    /\ [](\A c \in DOMAIN cycles :
             /\ cycles[c].calls = [i \in 1 .. Len(cycles[c].calls) |-> i - 1]
             /\ Len(cycles[c].calls) = cycles[c].index
             /\ cycles[c].index <= cycles[c].n
             /\ (Over(c) => Len(cycles[c].calls) = cycles[c].n))
    /\ [][\A c \in InFlight :
             /\ c \in DOMAIN cycles'
             /\ cycles'[c].index >= cycles[c].index
             /\ (Handed(c) => /\ cycles'[c].n = cycles[c].n
                              /\ cycles'[c].batchSize = cycles[c].batchSize)
             /\ (Ticked => cycles'[c] = cycles[c])]_vars

\* C3 witness: a feed of MaxN fixes in chunks of 2 (which does not divide it) is
\* over, and the call of updateTrains that came meanwhile was turned away
C3_Witness ==
    /\ ticks = 2
    /\ DOMAIN cycles = {1}
    /\ Over(1)
    /\ cycles[1].n = MaxN /\ cycles[1].batchSize = 2
    /\ Len(cycles[1].calls) = MaxN

\* C4: onComplete is called once per batch, and only when the last fix has been
\* processed: never twice, never while a run is under way or a frame callback
\* is scheduled, always by the time the batch is over; the call clears the flag.
C4_CompletionOnce ==
    /\ [](\A c \in DOMAIN cycles :
             /\ cycles[c].completions <= 1
             /\ (cycles[c].completions = 1
                     => /\ ~(cycles[c].pc \in {"run", "raf"})
                        /\ cycles[c].index = cycles[c].n
                        /\ Len(cycles[c].calls) = cycles[c].n)
             /\ (Over(c) => cycles[c].completions = 1))
    /\ [][\A c \in DOMAIN cycles :
             (c \in DOMAIN cycles' /\ cycles'[c].completions # cycles[c].completions)
                 => ~isUpdating']_vars

\* C4 witness: a feed that fills its chunks exactly (30 fixes, 15 per run) has completed
C4_Witness ==
    \E c \in DOMAIN cycles :
        /\ cycles[c].n = 2 * DefaultBatchSize
        /\ cycles[c].batchSize = DefaultBatchSize
        /\ cycles[c].completions = 1
        /\ ~isUpdating

\* the number of runs of a batch that processed at least one fix
Worked(chunks) == Cardinality({i \in 1 .. Len(chunks) : chunks[i] > 0})

\* C7: a batch of n fixes with batch size b is processed in ceil(n / b) runs:
\* every run but the last processes b fixes, the last processes the rest, a
\* frame callback is scheduled after every run but the last, and 37 fixes in
\* chunks of 15 are processed as 15, 15 and 7.
C7_FrameTicks ==
    \A c \in DOMAIN cycles :
        Handed(c) =>
            LET cy == cycles[c]
                k  == Len(cy.chunks)
            IN  /\ \A i \in 1 .. k - 1 : cy.chunks[i] = cy.batchSize
                /\ cy.chunks[k] <= cy.batchSize
                /\ cy.index = (k - 1) * cy.batchSize + cy.chunks[k]
                /\ (cy.pc = "run" => cy.rafs = k - 1)
                /\ (cy.pc = "raf"
                        => /\ cy.rafs = k
                           /\ cy.chunks[k] = cy.batchSize
                           /\ cy.index < cy.n)
                /\ (Over(c)
                        => /\ Worked(cy.chunks) = Ceil(cy.n, cy.batchSize)
                           /\ cy.rafs = k - 1
                           /\ cy.index = cy.n
                           /\ ((cy.n = 37 /\ cy.batchSize = 15) => cy.chunks = <<15, 15, 7>>))

\* C7 witness: 37 fixes in chunks of 15 have been processed
C7_Witness ==
    \E c \in DOMAIN cycles :
        /\ cycles[c].n = 37 /\ cycles[c].batchSize = 15
        /\ cycles[c].pc = "done"
        /\ cycles[c].chunks = <<15, 15, 7>>
        /\ cycles[c].rafs = 2

\* ------------------------------------------------------------ claims: anomaly guard

\* the step is a call of processTrain that got past fromDegrees; the fix, the
\* cycle's currentTime and the raw position of the call are then these
Processed == last' # last /\ last'.path # "invalid"
CallTrain == last'.train
CallTime == cycles[last'.cycle].now
CallRaw == FromDegrees(last'.train)

\* the vehicle of the call has an entity and a recorded last position
Known == CallTrain.id \in DOMAIN trainEntities /\ CallTrain.id \in DOMAIN lastKnownCoords

\* the squared displacement of the call from the recorded last position
Displacement2 == Dist2(lastKnownCoords[CallTrain.id], CallRaw)

\* the sample times of a motion property
Times(samples) == {samples[i][1] : i \in 1 .. Len(samples)}

\* the samples of a motion property
Samples(samples) == {samples[i] : i \in 1 .. Len(samples)}

\* C9: a fix of a known vehicle more than 2000 m from its recorded last position
\* leaves the motion property with the single sample (now, raw position) and the
\* raw (unsnapped) position recorded as last position, the entity otherwise as
\* it was: nothing was matched or built; at 2000 m or less there is no reset.
C9_AnomalyReset ==
    [][(Processed /\ Known)
          => /\ (Displacement2 > AnomalyThreshold * AnomalyThreshold
                    => /\ last'.path = "reset"
                       /\ trainEntities' =
                              [trainEntities EXCEPT ![CallTrain.id].position =
                                   << <<CallTime, CallRaw>> >>]
                       /\ lastKnownCoords' =
                              [lastKnownCoords EXCEPT ![CallTrain.id] = CallRaw])
             /\ (Displacement2 <= AnomalyThreshold * AnomalyThreshold
                    => last'.path # "reset")]_vars

\* C9 witness: v1, last seen on the track, was reset by a fix 2500 m along and 8 m off it
C9_Witness ==
    /\ last.path = "reset"
    /\ last.train = Fix("v1", "A", <<2500, 8>>, IN_TRANSIT)
    /\ Len(trainEntities["v1"].position) = 1
    /\ trainEntities["v1"].position[1][2] = <<2500, 8>>
    /\ lastKnownCoords["v1"] = <<2500, 8>>

\* C10 as claimed: every STOPPED fix adds one sample (now, raw position) to the
\* existing motion property of its vehicle and is neither matched nor corrected.
C10_EveryStopped ==
    [][(Processed /\ CallTrain.status = STOPPED)
          => /\ Known
             /\ last'.path = "stopped"
             /\ Len(trainEntities'[CallTrain.id].position)
                    = Len(trainEntities[CallTrain.id].position) + 1
             /\ <<CallTime, CallRaw>> \in Samples(trainEntities'[CallTrain.id].position)]_vars

\* C10: a STOPPED fix of a known vehicle at most 2000 m from its recorded last
\* position puts the sample (now, raw position) into the existing motion
\* property, keeping every sample at another time: one sample more, or as many
\* as before when the property already had a sample at now, which is replaced;
\* the raw position becomes the last position and nothing is matched or
\* corrected.  A STOPPED fix of a vehicle not yet known is matched like any other.
C10_StoppedKnown ==
    [][(Processed /\ CallTrain.status = STOPPED)
          => IF Known
             THEN Displacement2 <= AnomalyThreshold * AnomalyThreshold
                    => LET old == trainEntities[CallTrain.id].position
                           new == trainEntities'[CallTrain.id].position
                       IN  /\ last'.path = "stopped"
                           /\ <<CallTime, CallRaw>> \in Samples(new)
                           /\ Times(new) = Times(old) \cup {CallTime}
                           /\ \A x \in Samples(old) : x[1] # CallTime => x \in Samples(new)
                           /\ Len(new) = IF CallTime \in Times(old)
                                         THEN Len(old) ELSE Len(old) + 1
                           /\ lastKnownCoords'[CallTrain.id] = CallRaw
                           /\ DOMAIN trainEntities' = DOMAIN trainEntities
             ELSE last'.path \in {"created", "dropped"}]_vars

\* C10 witness: v1, created on the track in an earlier cycle, is reported
\* stopped 8 m off the track at a later time, and the raw position is a new sample
C10_Witness ==
    /\ last.path = "stopped"
    /\ last.train = Fix("v1", "A", <<5, 8>>, STOPPED)
    /\ Len(trainEntities["v1"].position) >= 2
    /\ <<ClockStep, <<5, 8>>>> \in Samples(trainEntities["v1"].position)
    /\ lastKnownCoords["v1"] = <<5, 8>>

\* C11: for a STOPPED fix of a known vehicle the threshold test decides first:
\* more than 2000 m from the recorded last position, the motion property is
\* left with the one sample (now, raw position), whatever it held before; at
\* 2000 m or less the sample (now, raw position) joins the samples the property
\* already had; either way the raw position becomes the last position.
C11_GuardOrder ==
    [][(Processed /\ Known /\ CallTrain.status = STOPPED)
          => LET old == trainEntities[CallTrain.id].position
                 new == trainEntities'[CallTrain.id].position
             IN  /\ lastKnownCoords'[CallTrain.id] = CallRaw
                 /\ <<CallTime, CallRaw>> \in Samples(new)
                 /\ IF Displacement2 > AnomalyThreshold * AnomalyThreshold
                    THEN Len(new) = 1
                    ELSE \A x \in Samples(old) : x[1] # CallTime => x \in Samples(new)]_vars

\* C11 witness: v1, last seen on the track, is reported stopped 2500 m along and
\* 8 m off it, and that one sample is all its motion property holds
C11_Witness ==
    /\ last.path = "reset"
    /\ last.train = Fix("v1", "A", <<2500, 8>>, STOPPED)
    /\ trainEntities["v1"].position = << <<ClockStep, <<2500, 8>>>> >>
    /\ lastKnownCoords["v1"] = <<2500, 8>>

\* ------------------------------------------------------------ claims: store and matcher

\* the route has track segments in state.flattenedRouteMap
HasTrack(route) ==
    route \in DOMAIN flattenedRouteMap /\ Len(flattenedRouteMap[route]) > 0

\* pt lies on the polyline
OnLine(pt, line) ==
    \E i \in 1 .. Len(line) - 1 : NearestOnEdge(line[i], line[i + 1], pt) = pt

\* pt is a point of the route's track nearest to p: it lies on a segment, and
\* no segment comes nearer to p than pt is
NearestOnTrack(pt, route, p) ==
    /\ \E k \in 1 .. Len(flattenedRouteMap[route]) : OnLine(pt, flattenedRouteMap[route][k])
    /\ \A k \in 1 .. Len(flattenedRouteMap[route]) :
           Dist2(pt, p) <= PointToLineDistance2(p, flattenedRouteMap[route][k])

\* the fix of the call has numeric coordinates and its vehicle has no entity yet
FirstFix == Processed /\ CallTrain.numeric /\ CallTrain.id \notin DOMAIN trainEntities

\* the vehicle of the call has, after it, an entity with the single sample (now, pt)
CreatedAt(pt) ==
    /\ CallTrain.id \in DOMAIN trainEntities'
    /\ trainEntities'[CallTrain.id].position = << <<CallTime, pt>> >>

\* C12 as claimed: the first fix of a vehicle creates it with one sample, at the
\* snapped position when its route has track and at the raw position when not.
C12_FirstFixCreates ==
    [][FirstFix
          => IF HasTrack(CallTrain.route)
             THEN /\ CallTrain.id \in DOMAIN trainEntities'
                  /\ CreatedAt(trainEntities'[CallTrain.id].position[1][2])
                  /\ NearestOnTrack(trainEntities'[CallTrain.id].position[1][2],
                                    CallTrain.route, CallRaw)
             ELSE CreatedAt(CallRaw)]_vars

\* C12: the first fix of a vehicle whose route has track creates the vehicle
\* with the one sample (now, snapped position), the snapped position being the
\* point of the route's track nearest to the raw position, and records that
\* position as last position; when the route has no track no vehicle is created.
C12_FirstFixMatched ==
    [][FirstFix
          => IF HasTrack(CallTrain.route)
             THEN /\ DOMAIN trainEntities' = DOMAIN trainEntities \cup {CallTrain.id}
                  /\ Len(trainEntities'[CallTrain.id].position) = 1
                  /\ trainEntities'[CallTrain.id].position[1][1] = CallTime
                  /\ NearestOnTrack(trainEntities'[CallTrain.id].position[1][2],
                                    CallTrain.route, CallRaw)
                  /\ lastKnownCoords'[CallTrain.id]
                         = trainEntities'[CallTrain.id].position[1][2]
                  /\ trainEntities'[CallTrain.id].route = CallTrain.route
             ELSE UNCHANGED <<trainEntities, lastKnownCoords>>]_vars

\* C12 witness: v1, first reported 8 m off the track, exists with one sample on the track
C12_Witness ==
    /\ last.path = "created"
    /\ last.train.pos = <<5, 8>>
    /\ trainEntities["v1"].position = << <<0, <<5, 0>>>> >>
    /\ lastKnownCoords["v1"] = <<5, 0>>

\* the Anomaly Guard handles the fix of the call: its vehicle is known and the
\* fix is more than 2000 m from the recorded last position or STOPPED
GuardHandles ==
    /\ Known
    /\ \/ Displacement2 > AnomalyThreshold * AnomalyThreshold
       \/ CallTrain.status = STOPPED

\* every last-seen time but that of the vehicle of the call is as before
OthersSeenUnchanged ==
    /\ DOMAIN lastSeenTimes' = DOMAIN lastSeenTimes \cup {CallTrain.id}
    /\ \A id \in DOMAIN lastSeenTimes \ {CallTrain.id} : lastSeenTimes'[id] = lastSeenTimes[id]

\* C13 as claimed: a fix whose route has no track segments changes no engine state.
C13_DropChangesNothing ==
    [][(Processed /\ ~HasTrack(CallTrain.route))
          => UNCHANGED <<trainEntities, lastKnownCoords, lastSeenTimes>>]_vars

\* C13: a fix whose route has no track segments and which the Anomaly Guard does
\* not handle is dropped: no entity is created, the entities with their motion
\* properties and the last positions are as before, and of the engine's state
\* only the last-seen time of the fix's vehicle changes, which is refreshed.
C13_DropKeepsVehicles ==
    [][(Processed /\ ~HasTrack(CallTrain.route) /\ ~GuardHandles)
          => /\ last'.path = "dropped"
             /\ UNCHANGED <<trainEntities, lastKnownCoords, hiddenLines, flattenedRouteMap>>
             /\ OthersSeenUnchanged
             /\ lastSeenTimes'[CallTrain.id] = clock]_vars

\* C13 witness: v1, known from a route with track, was reported moving on a
\* route without track at a later time (v1 keeps its entity, its last-seen time is new)
C13_Witness ==
    /\ last.path = "dropped"
    /\ last.train = Fix("v1", "X", <<0, 0>>, IN_TRANSIT)
    /\ "v1" \in DOMAIN trainEntities
    /\ trainEntities["v1"].route = "A"
    /\ lastSeenTimes["v1"] = ClockStep

\* C14: every call of processTrain sets the last-seen time of the fix's vehicle
\* to the wall clock of the call, whatever became of the fix, and leaves the
\* last-seen times of the other vehicles alone.
C14_LastSeenRefreshed ==
    [][Processed
          => /\ CallTrain.id \in DOMAIN lastSeenTimes'
             /\ lastSeenTimes'[CallTrain.id] = clock
             /\ OthersSeenUnchanged
             /\ last'.path \in {"created", "reset", "stopped", "rebuilt", "noop",
                                "dropped", "aborted", "threw"}]_vars

\* C14 witness: a fix that moved nothing (v1 reported less than 10 m from where
\* it stands) at a later time has renewed the last-seen time of v1
C14_Witness ==
    /\ last.path = "noop"
    /\ "v1" \in DOMAIN lastSeenTimes
    /\ lastSeenTimes["v1"] = ClockStep
    /\ trainEntities["v1"].position[1][1] = 0

\* C15: the segment the matcher goes on with is a segment of the route at the
\* least point-to-line distance from the raw position, and every segment before
\* it in the route's sequence is strictly farther: of several at the least
\* distance it is the first.  The snapped position lies on it at that distance.
\* (Position and sequence determine the segment, there being one first minimum.)
C15_FirstMinimalSegment ==
    [][(Processed /\ last'.snap # <<>>)
          => LET segs == flattenedRouteMap[CallTrain.route]
                 d(k) == PointToLineDistance2(CallRaw, segs[k])
             IN  \E k \in 1 .. Len(segs) :
                     /\ segs[k] = last'.snap[1].closestLine
                     /\ \A j \in 1 .. Len(segs) : d(k) <= d(j)
                     /\ \A j \in 1 .. k - 1 : d(j) > d(k)
                     /\ OnLine(last'.snap[1].newPos, segs[k])
                     /\ Dist2(last'.snap[1].newPos, CallRaw) = d(k)]_vars

\* C15 witness: a fix midway between the two polylines, on the route that lists
\* the northern one first, was matched to the northern one
C15_Witness ==
    /\ last.train = Fix("v1", "B", <<1000, 10>>, IN_TRANSIT)
    /\ last.snap # <<>>
    /\ last.snap[1].closestLine = TrackB[1]
    /\ last.snap[1].newPos = <<1000, 20>>

\* ------------------------------------------------------------ claims: path builder

\* the position of the vehicle of the call at the call's currentTime, as
\* entity.position.getValue gives it before the call (<<>>: undefined)
CallCurrent == GetValue(trainEntities[CallTrain.id].position, CallTime)

\* the call went on to updateTrainAnimation with a snapped target
Matched == Processed /\ Known /\ last'.snap # <<>>

\* the snapped target of the call
CallTarget == last'.snap[1].newPos

\* the call follows a call for the same vehicle, both fixes were snapped, and
\* the two snapped positions are less than 10 m apart
CloseSuccessor ==
    /\ Matched
    /\ last.train.id = CallTrain.id
    /\ last.snap # <<>>
    /\ Dist2(last.snap[1].newPos, CallTarget) < NoOpThreshold * NoOpThreshold

\* C16 as claimed: the second of two successive fixes of a known vehicle that
\* snap less than 10 m apart leaves the motion property as it was, wherever the
\* vehicle is on its path when the second fix comes.
C16_CloseFixNoOp ==
    [][CloseSuccessor
          => trainEntities'[CallTrain.id].position = trainEntities[CallTrain.id].position]_vars

\* C16: the second of two successive fixes of a known vehicle that snap less
\* than 10 m apart leaves the motion property and the last position as they
\* were when the vehicle stands at the first snapped position as the second fix
\* comes; when the vehicle is then 10 m or more from the second snapped
\* position (still on its way, or left behind by a fix that moved nothing), the
\* property is replaced by one seeded at now.
C16_CloseFixAtRest ==
    [][CloseSuccessor
          => /\ CallCurrent # <<>>
             /\ (CallCurrent[1] = last.snap[1].newPos
                    => /\ last'.path = "noop"
                       /\ UNCHANGED <<trainEntities, lastKnownCoords>>)
             /\ (Dist2(CallCurrent[1], CallTarget) >= NoOpThreshold * NoOpThreshold
                    => /\ last'.path = "rebuilt"
                       /\ trainEntities'[CallTrain.id].position[1][1] = CallTime)]_vars

\* C16 witness: v1 was created at 0 m and reported 5 m along by the next fix of
\* the same feed; its motion property is the one sample it was created with
C16_Witness ==
    /\ last.path = "noop"
    /\ last.cycle = 1 /\ last.index = 1
    /\ last.train.pos = <<5, 8>>
    /\ trainEntities["v1"].position = << <<0, <<0, 0>>>> >>
    /\ lastKnownCoords["v1"] = <<0, 0>>

\* C17: in updateTrainAnimation, when the interpolated position is less than
\* 10 m from the snapped target, the entities (their motion properties) and the
\* last positions are as before; at 10 m or more, exactly 10 m included, the
\* motion property is replaced by one seeded at now and the target recorded.
C17_NoOpBelowTen ==
    [][(Matched /\ CallCurrent # <<>>)
          => IF Dist2(CallCurrent[1], CallTarget) < NoOpThreshold * NoOpThreshold
             THEN UNCHANGED <<trainEntities, lastKnownCoords>>
             ELSE /\ last'.path = "rebuilt"
                  /\ trainEntities'[CallTrain.id].position[1][1] = CallTime
                  /\ lastKnownCoords'[CallTrain.id] = CallTarget]_vars

\* C17 witness: v1, standing at 0 m, was reported exactly 10 m along, and its
\* motion property is a new one leading there
C17_Witness ==
    /\ last.path = "rebuilt"
    /\ last.train.pos = <<10, 0>>
    /\ trainEntities["v1"].position = << <<0, <<0, 0>>>>, <<MinDuration * 1000, <<10, 0>>>> >>
    /\ lastKnownCoords["v1"] = <<10, 0>>

\* the call replaced the motion property of its vehicle
Rebuilt == Processed /\ last'.path = "rebuilt"

\* the time from now to the last sample of the motion property after the call, in ms
CallSpan ==
    trainEntities'[CallTrain.id].position[Len(trainEntities'[CallTrain.id].position)][1]
        - CallTime

\* C18: a rebuild over the displacement d (in whole metres, at least 10) between
\* the interpolated position and the snapped target leaves the last sample at
\* now + max(20, d / 18) seconds: 20 s exactly for d <= 360, d / 18 s (to the
\* millisecond) above, and 83.333 s for d = 1500.
C18_Duration ==
    [][Rebuilt
          => LET d == Distance(CallCurrent[1], CallTarget)
             IN  /\ d >= NoOpThreshold
                 /\ (d <= MinDuration * TrainSpeed => CallSpan = MinDuration * 1000)
                 /\ (d > MinDuration * TrainSpeed
                        => /\ TrainSpeed * CallSpan <= 1000 * d
                           /\ 1000 * d < TrainSpeed * (CallSpan + 1))
                 /\ (d = 1500 => CallSpan = 83333)]_vars

\* C18 witness: v1, standing at 500 m, was reported at 2000 m, 1500 m on, and
\* the last sample of its motion property is 83.333 s after now
C18_Witness ==
    /\ last.path = "rebuilt"
    /\ last.train.pos = <<2000, 0>>
    /\ trainEntities["v1"].position[1] = <<0, <<500, 0>>>>
    /\ trainEntities["v1"].position[Len(trainEntities["v1"].position)]
           = <<83333, <<2000, 0>>>>

\* the call follows a call for the same vehicle that replaced its motion property
AfterRebuild == Processed /\ last.path = "rebuilt" /\ last.train.id = CallTrain.id

\* the squared distance of the call's raw fix from the snapped target of the
\* call before it
FromLastTarget2 == Dist2(last.snap[1].newPos, CallRaw)

\* C19: a rebuild records the snapped target, not the raw fix, as the vehicle's
\* last position; the next fix of the vehicle is measured from that position,
\* and when it is more than 2000 m away the motion property is reset to the
\* single sample (now, raw fix) and no path is built, while a fix within 2000 m
\* causes no reset.
C19_AnchoredToTarget ==
    [][/\ Rebuilt => lastKnownCoords'[CallTrain.id] = CallTarget
       /\ AfterRebuild
            => /\ lastKnownCoords[CallTrain.id] = last.snap[1].newPos
               /\ IF FromLastTarget2 > AnomalyThreshold * AnomalyThreshold
                  THEN /\ last'.path = "reset"
                       /\ last'.snap = <<>>
                       /\ trainEntities'[CallTrain.id].position = << <<CallTime, CallRaw>> >>
                       /\ lastKnownCoords'[CallTrain.id] = CallRaw
                  ELSE last'.path # "reset"]_vars

\* C19 witness: v1 was reported 8 m off the track at 500 m, its motion property
\* was rebuilt, and its recorded last position is the point on the track
C19_Witness ==
    /\ last.path = "rebuilt"
    /\ last.train.pos = <<500, 8>>
    /\ last.snap[1].newPos = <<500, 0>>
    /\ Len(trainEntities["v1"].position) >= 2
    /\ lastKnownCoords["v1"] = <<500, 0>>

\* the slice of the winning segment between the interpolated position and the
\* snapped target of the call
CallSlice == LineSlice(CallCurrent[1], CallTarget, last'.snap[1].closestLine)

\* the duration of the call's rebuild, in ms
CallDuration == CalculatedDuration(Distance(CallCurrent[1], CallTarget), TrainSpeed)

\* C20: the slice of a rebuild has N >= 2 vertices, and the installed motion
\* property has N >= 2 samples: the seed at now (waypoint 0, at the same time,
\* takes its place), and waypoint i of N at now + (i / (N - 1)) * duration, so
\* the times never decrease in the order in which the samples were added.
C20_EvenWaypoints ==
    [][Rebuilt
          => LET new == trainEntities'[CallTrain.id].position
                 N == Len(CallSlice)
             IN  /\ N > 1
                 /\ Len(new) >= 2
                 /\ Len(new) = N
                 /\ new[1][1] = CallTime
                 /\ \A i \in 1 .. N :
                        new[i][1] = CallTime + ((i - 1) * CallDuration) \div (N - 1)
                 /\ \A i \in 1 .. (N - 1) : new[i][1] <= new[i + 1][1]]_vars

\* C20 witness: v1 went from 0 m to 2000 m past the vertex at 1500 m, and the
\* three waypoints are at now, now + duration / 2 and now + duration
C20_Witness ==
    /\ last.path = "rebuilt"
    /\ trainEntities["v1"].position
           = << <<0, <<0, 0>>>>, <<55555, <<1500, 0>>>>, <<111111, <<2000, 0>>>> >>

\* ------------------------------------------------------------ claims: failures

\* the call reached updateTrainAnimation and getValue(currentTime) was undefined
Aborted == Matched /\ CallCurrent = <<>>

\* the call follows a call for the same vehicle that aborted
AfterAbort == Processed /\ last.path = "aborted" /\ last.train.id = CallTrain.id

\* C21: when the motion property has no value at now, updateTrainAnimation
\* returns without changing any entity or recorded last position; a following
\* fix of the vehicle whose now the property resolves is handled as if the
\* aborted call had not happened: it is rebuilt when its snapped target is 10 m
\* or more from the interpolated position.
C21_AbortKeeps ==
    [][/\ Aborted
            => /\ last'.path = "aborted"
               /\ UNCHANGED <<trainEntities, lastKnownCoords>>
       /\ (Processed /\ last'.path = "aborted") => Aborted
       /\ (AfterAbort /\ Matched /\ CallCurrent # <<>>
             /\ Dist2(CallCurrent[1], CallTarget) >= NoOpThreshold * NoOpThreshold)
            => /\ last'.path = "rebuilt"
               /\ trainEntities'[CallTrain.id].position[1] = <<CallTime, CallCurrent[1]>>
               /\ lastKnownCoords'[CallTrain.id] = CallTarget]_vars

\* C21 witness: v1 was created at 10 s; a cycle that read the time 0 reported it
\* at 500 m and aborted, and the vehicle is as it was created
C21_Witness ==
    /\ last.path = "aborted"
    /\ last.train.pos = <<500, 8>>
    /\ trainEntities["v1"].position = << <<ClockStep, <<0, 0>>>> >>
    /\ lastKnownCoords["v1"] = <<0, 0>>

PropertyChanged ==
    /\ Processed /\ Known
    /\ trainEntities'[CallTrain.id].position # trainEntities[CallTrain.id].position

\* the motion property after the call is one the call built: the engine puts
\* samples into a new property at now and later only, so no sample before now
\* is in it
BuiltNow ==
    \A s \in Samples(trainEntities'[CallTrain.id].position) : s[1] >= CallTime

\* the motion property after the call is the one before the call with the
\* sample (now, raw position) added to it: every other sample is still there
AddedInPlace ==
    Samples(trainEntities'[CallTrain.id].position)
        = {s \in Samples(trainEntities[CallTrain.id].position) : s[1] # CallTime}
            \cup {<<CallTime, CallRaw>>}

\* C23 as claimed: every change the engine makes to the motion of a vehicle
\* installs a complete new motion property; none is a modification of the
\* property the entity already has.
C23_FullReplacement == [][PropertyChanged => BuiltNow]_vars

\* C23 as amended: a hard reset and a path rebuild install a new motion property,
\* built from now on; a STOPPED fix within the threshold adds its sample to the
\* motion property the entity already has, whose other samples stay; the engine
\* changes a known vehicle's motion property in no other way.
C23_ReplaceOrAdd ==
    [][PropertyChanged
          => IF last'.path = "stopped"
             THEN AddedInPlace
             ELSE last'.path \in {"reset", "rebuilt"} /\ BuiltNow]_vars

\* C23 witness: v1 was created at time 0, and a STOPPED fix 10 s later added a
\* second sample to the same motion property
C23_Witness ==
    /\ last.path = "stopped"
    /\ trainEntities["v1"].position = << <<0, <<0, 0>>>>, <<ClockStep, <<5, 8>>>> >>

\* C24: the motion property of every vehicle in the store has at least one sample.
C24_AtLeastOneSample ==
    \A id \in DOMAIN trainEntities : Len(trainEntities[id].position) >= 1

\* C24 witness: v1 was created at 2500 m and a fix back at 0 m reset its motion
\* property, which has the one sample of the reset
C24_Witness ==
    /\ last.path = "reset"
    /\ last.train.pos = <<0, 0>>
    /\ DOMAIN trainEntities = {"v1"}
    /\ Len(trainEntities["v1"].position) = 1
    /\ trainEntities["v1"].position[1][2] = <<0, 0>>

\* the call is the first sighting of its vehicle: no fix of it was processed before
FirstSighting == Processed /\ CallTrain.id \notin DOMAIN lastSeenTimes

\* no vehicle leaves the store in the step, and every entity stays the entity
\* it was (the same id and route)
NoneDestroyed ==
    /\ DOMAIN trainEntities \subseteq DOMAIN trainEntities'
    /\ DOMAIN lastKnownCoords \subseteq DOMAIN lastKnownCoords'
    /\ DOMAIN lastSeenTimes \subseteq DOMAIN lastSeenTimes'
    /\ \A id \in DOMAIN trainEntities : trainEntities'[id].route = trainEntities[id].route

\* C25 as claimed: the first sighting of an id creates its vehicle, and no
\* vehicle is ever destroyed.
C25_CreatedOnFirstSighting ==
    [][/\ NoneDestroyed
       /\ FirstSighting => CallTrain.id \in DOMAIN trainEntities']_vars

\* C25 as amended: no vehicle is ever destroyed, in any step; a call of
\* processTrain adds at most the vehicle of its fix, and adds it exactly when
\* the vehicle has no entity yet and the fix is matched to track (its route has
\* track segments and its coordinates are numbers), be that the first sighting
\* or a later one; a vehicle that has an entity is never created again.
C25_StoreOnlyGrows ==
    [][/\ NoneDestroyed
       /\ Processed
            => /\ DOMAIN trainEntities' \subseteq DOMAIN trainEntities \cup {CallTrain.id}
               /\ DOMAIN lastKnownCoords' = DOMAIN trainEntities'
               /\ CallTrain.id \in DOMAIN lastSeenTimes'
               /\ (last'.path = "created")
                     <=> /\ CallTrain.id \notin DOMAIN trainEntities
                         /\ HasTrack(CallTrain.route)
                         /\ CallTrain.numeric
               /\ (last'.path = "created")
                     <=> (CallTrain.id \in DOMAIN trainEntities' \ DOMAIN trainEntities)]_vars

\* C25 witness: v1 is in the store; the second cycle's feed held one fix, of v2,
\* which was seen before on a route without track and is created now
C25_Witness ==
    /\ last.path = "created"
    /\ last.train.id = "v2"
    /\ last.cycle = 2
    /\ 2 \in DOMAIN cycles
    /\ cycles[2].n = 1
    /\ DOMAIN trainEntities = {"v1", "v2"}
    /\ lastSeenTimes["v2"] = ClockStep

\* the entry of id in the map after the step is the entry before it
Kept(map, mapAfter, id) ==
    id \in DOMAIN map => (id \in DOMAIN mapAfter /\ mapAfter[id] = map[id])

\* the ids other than the vehicle of the call that have state before or after the call
OtherIds ==
    (DOMAIN trainEntities \cup DOMAIN lastKnownCoords \cup DOMAIN lastSeenTimes
        \cup DOMAIN trainEntities' \cup DOMAIN lastKnownCoords' \cup DOMAIN lastSeenTimes')
        \ {CallTrain.id}

\* C27: a call of processTrain, whatever its outcome, leaves the entity, the
\* motion property, the last position and the last-seen time of every vehicle
\* other than the one of its fix as they were, and gives no other id any state.
C27_OnlyOwnVehicle ==
    [][last' # last
          => \A id \in OtherIds :
                 /\ id \in DOMAIN trainEntities \cup DOMAIN lastKnownCoords
                        \cup DOMAIN lastSeenTimes
                 /\ Kept(trainEntities, trainEntities', id)
                 /\ Kept(lastKnownCoords, lastKnownCoords', id)
                 /\ Kept(lastSeenTimes, lastSeenTimes', id)
                 /\ DOMAIN trainEntities' \subseteq DOMAIN trainEntities \cup {CallTrain.id}
                 /\ DOMAIN lastKnownCoords' \subseteq DOMAIN lastKnownCoords \cup {CallTrain.id}
                 /\ DOMAIN lastSeenTimes' \subseteq DOMAIN lastSeenTimes \cup {CallTrain.id}]_vars

\* C27 witness: v2 was created at time 0; 10 s later a fix reset v1, and v2 is
\* as it was created
C27_Witness ==
    /\ last.path = "reset"
    /\ last.train.id = "v1"
    /\ DOMAIN trainEntities = {"v1", "v2"}
    /\ trainEntities["v2"].position = << <<0, <<1000, 0>>>> >>
    /\ lastKnownCoords["v2"] = <<1000, 0>>
    /\ lastSeenTimes["v2"] = 0
    /\ lastSeenTimes["v1"] = ClockStep

\* ------------------------------------------------------------ claims: direction

\* the point of the winning segment nearest the interpolated position of the call
CallStart == NearestPointOnLine(last'.snap[1].closestLine, CallCurrent[1]).pt

\* C26 as claimed: after a rebuild the first waypoint is the point of the
\* winning segment nearest the current position and the final sample is at the
\* snapped target, which is the recorded last position: the position held when
\* the animation has ended is the recorded last position.
C26_EndsAtTarget ==
    [][Rebuilt
          => LET new == trainEntities'[CallTrain.id].position
             IN  /\ new[1][2] = CallStart
                 /\ new[Len(new)][2] = CallTarget
                 /\ GetValue(new, new[Len(new)][1])[1] = lastKnownCoords'[CallTrain.id]]_vars

\* ------------------------------------------------------------ claims: visibility

\* C28: every train entity is shown exactly when its route is not in the
\* hidden-lines set.
C28_ShownUnlessHidden ==
    \A id \in DOMAIN trainEntities :
        trainEntities[id].show <=> (trainEntities[id].route \notin hiddenLines)

\* C28 witness: v2 was created while every line was shown, line A was hidden, and
\* v1 was then created on it, hidden, while v2 is still shown
C28_Witness ==
    /\ last.path = "created"
    /\ last.train.id = "v1"
    /\ hiddenLines = {"A"}
    /\ DOMAIN trainEntities = {"v1", "v2"}
    /\ ~trainEntities["v1"].show
    /\ trainEntities["v2"].show

====
